---- MODULE Spec2Model ----
(***************************************************************************)
(* A model of the lock-free stack of src/src/base.rs: a Treiber stack      *)
(* whose nodes are reclaimed through a process-wide hazard-pointer domain. *)
(* Threads push, pop, peek and extend one shared stack; every thread also  *)
(* owns a private stack that it fills and hands to extend.                 *)
(***************************************************************************)
EXTENDS Integers, Sequences, FiniteSets, TLC

\* ------------------------------------------------------------- bounds
MaxPush == 3   \* pushes in a run: as many values, and as many addresses
MaxHeld == 1   \* Entry handles one thread keeps alive at a time
MaxCalls == 2  \* calls one thread issues, in the runs where they are counted

\* ---------------------------------------------------------- constants
NULL == 0      \* null_mut()
UNINIT == -1   \* a next-link whose bytes are not zero and name no node
SHARED == 0    \* the stack every thread works on

Threads == {1, 2}
StackIds == {SHARED} \cup Threads   \* stack t is thread t's private stack
Addrs == 1..MaxPush
Values == 1..MaxPush

VARIABLES
    head,     \* Stack.head of every stack
    len,      \* Stack.len of every stack
    mem,      \* the heap: per address, whether allocated, Node.val, Node.next
    fresh,    \* addresses the allocator has handed out for the first time
    nextVal,  \* pushes started; the value of push k is k
    retired,  \* the domain's retired list: address -> times retired
    haz,      \* per thread: the slot of the HazardPointer being acquired
    guard,    \* per thread: the node of the NodeRef the running call holds
    entries,  \* per thread: address -> Entry handles the caller holds on it
    pc,       \* per thread: position in the running call
    op,       \* per thread: the running call
    ptr,      \* per thread: protect_ptr's candidate; in extend, then the tail
    nxt,      \* per thread: head_ptr (push), next_ptr (pop), old_head (extend)
    phase,    \* the shared stack: "run", "iter" (into_iter taken), "dropped"
    active,   \* the threads of this run
    popped,   \* history: the values the pops returned, in return order
    yielded,  \* history: the values IntoIter::next yielded
    gone,     \* history: value -> times its node was deallocated
    destroyed,\* history: value -> times it was dropped in place or moved out
    dfree,    \* history: dealloc was called on an address not allocated
    pushed,   \* history: the values linked into the shared stack so far
    shape,    \* history (single-threaded runs): "pushes", then "pops", else "other"
    obs,      \* history (single-threaded runs): the last completed call
    changed,  \* history, per thread: another thread's CAS has changed head
              \* since this thread's call last read it
    budget    \* per thread: the calls it has yet to issue, or Unlimited

vars == <<head, len, mem, fresh, nextVal, retired, haz, guard, entries, pc, op,
          ptr, nxt, phase, active, popped, yielded, gone, destroyed, dfree,
          pushed, shape, obs, changed, budget>>

heap == <<mem, gone, destroyed, dfree>>
locals == <<haz, guard, pc, op, ptr, nxt, changed>>
hist == <<popped, yielded, pushed, shape>>

FreeCell == [alloc |-> FALSE, val |-> 0, next |-> NULL]
NoObs == [op |-> "none", res |-> 0, dst |-> <<>>, src |-> <<>>]

\* ------------------------------------------------------------ helpers

\* The addresses met following next-links from a, at most fuel of them.
RECURSIVE Walk(_, _, _)
Walk(m, a, fuel) ==
    IF a \notin Addrs \/ fuel = 0 THEN <<>>
    ELSE <<a>> \o Walk(m, m[a].next, fuel - 1)

\* Drop for Stack walks `while !curr.is_null()`.
Chain(s) == Walk(mem, head[s], MaxPush + 1)

ChainVals(s) == [i \in 1..Len(Chain(s)) |-> mem[Chain(s)[i]].val]

Range(q) == {q[i] : i \in 1..Len(q)}

Held(t) ==
    LET RECURSIVE Sum(_)
        Sum(S) == IF S = {} THEN 0
                  ELSE LET a == CHOOSE x \in S : TRUE
                       IN entries[t][a] + Sum(S \ {a})
    IN Sum(Addrs)

\* Mutant of ProtectedBut: the scan sees the Entry handles only, not the
\* NodeRef guards of the calls in flight.
ProtectedEntriesOnly(T) ==
    {a \in Addrs : \E t \in Threads : entries[t][a] > 0}

\* Every address some hazard slot names, the NodeRef slots of the threads T
\* left out (a thread that has just dropped its NodeRef).
ProtectedBut(T) ==
    {haz[t] : t \in Threads} \cup {guard[t] : t \in Threads \ T}
        \cup {a \in Addrs : \E t \in Threads : entries[t][a] > 0}

\* Every address some hazard slot currently names.
Protected == ProtectedBut({})

\* The addresses a validated guard (NodeRef or Entry) names.
Guarded ==
    ({guard[t] : t \in Threads} \cup
     {a \in Addrs : \E t \in Threads : entries[t][a] > 0}) \ {NULL}

\* alloc(layout): a freed address again, or one never used before.
AllocChoices ==
    {a \in Addrs : a <= fresh /\ ~mem[a].alloc}
        \cup (IF fresh < MaxPush THEN {fresh + 1} ELSE {})

\* The heap after Node::drop / dealloc of every address of the sequence q.
\* h is <<mem, gone, destroyed, dfree>>; moved tells ptr::read took the value.
RECURSIVE FreeSeq(_, _)
FreeSeq(h, q) ==
    IF q = <<>> THEN h
    ELSE LET a == Head(q)
             v == h[1][a].val
             h1 == IF h[1][a].alloc
                   THEN <<[h[1] EXCEPT ![a] = FreeCell],
                          [h[2] EXCEPT ![v] = @ + 1],
                          [h[3] EXCEPT ![v] = @ + 1],
                          h[4]>>
                   ELSE <<h[1], h[2], h[3], TRUE>>
         IN FreeSeq(h1, Tail(q))

\* A set as a sequence, and a retired list as the sequence of its entries.
RECURSIVE SetSeq(_)
SetSeq(S) ==
    IF S = {} THEN <<>>
    ELSE LET a == CHOOSE x \in S : \A y \in S : x <= y
         IN <<a>> \o SetSeq(S \ {a})

RECURSIVE Times(_, _)
Times(a, n) == IF n = 0 THEN <<>> ELSE <<a>> \o Times(a, n - 1)

RECURSIVE RetSeq(_, _)
RetSeq(r, q) ==
    IF q = <<>> THEN <<>>
    ELSE Times(Head(q), r[Head(q)]) \o RetSeq(r, Tail(q))

\* Mutant of Reclaimable: the pass frees every retired node, guarded or not.
ReclaimableAll(r, prot) == {a \in Addrs : r[a] > 0}

\* Domain::eager_reclaim: the retired nodes no hazard slot names.
Reclaimable(r, prot) == {a \in Addrs : r[a] > 0 /\ a \notin prot}

\* The retired list and heap after retiring `add` (NULL: nothing) and one
\* eager_reclaim pass under the protected set prot.
RetireReclaim(add, prot) ==
    LET r1 == IF add = NULL THEN retired
              ELSE [retired EXCEPT ![add] = @ + 1]
        del == Reclaimable(r1, prot)
    IN [ret |-> [a \in Addrs |-> IF a \in del THEN 0 ELSE r1[a]],
        heap |-> FreeSeq(<<mem, gone, destroyed, dfree>>,
                         RetSeq(r1, SetSeq(del)))]

\* Mutant of StackDrop: the chain is freed, the reclamation pass is left out.
StackDropNoReclaim(s, prot) ==
    [ret |-> retired,
     heap |-> FreeSeq(<<mem, gone, destroyed, dfree>>,
                      Walk(mem, head[s], MaxPush + 1))]

\* impl Drop for Stack: eager_reclaim, then Node::drop along the chain.
StackDrop(s, prot) ==
    LET rr == RetireReclaim(NULL, prot)
    IN [ret |-> rr.ret,
        heap |-> FreeSeq(rr.heap, Walk(rr.heap[1], head[s], MaxPush + 1))]

\* Stack::len. Its `len > isize::MAX` branch needs 2^63 pushes: the counter
\* of a run stays below MaxPush + 1, so len() is the counter.
LenOf(s) == len[s]

\* A thread whose calls are not counted.
Unlimited == MaxCalls + 1

\* budget after thread t has issued one more call.
Spend(t) ==
    IF budget[t] = Unlimited THEN budget ELSE [budget EXCEPT ![t] = @ - 1]

Record(o) == IF Cardinality(active) = 1 THEN o ELSE NoObs

\* The positions of a call between a read of head and the CAS (or the
\* re-read of protect_ptr) that depends on it.
AfterRead == {"protect", "validate", "pop_cas", "push_cas", "ext_cas"}

\* changed after thread t has read head.
Read(t) == [changed EXCEPT ![t] = FALSE]

\* changed after thread t's compare_exchange on head has succeeded.
Raced(t) ==
    [u \in Threads |-> IF u = t THEN FALSE
                       ELSE IF pc[u] \in AfterRead THEN TRUE
                       ELSE changed[u]]

\* --------------------------------------------------------------- Init

InitWith(T) ==
    /\ budget = [t \in Threads |-> Unlimited]
    /\ head = [s \in StackIds |-> NULL]
    /\ len = [s \in StackIds |-> 0]
    /\ mem = [a \in Addrs |-> FreeCell]
    /\ fresh = 0
    /\ nextVal = 0
    /\ retired = [a \in Addrs |-> 0]
    /\ haz = [t \in Threads |-> NULL]
    /\ guard = [t \in Threads |-> NULL]
    /\ entries = [t \in Threads |-> [a \in Addrs |-> 0]]
    /\ pc = [t \in Threads |-> "idle"]
    /\ op = [t \in Threads |-> "none"]
    /\ ptr = [t \in Threads |-> NULL]
    /\ nxt = [t \in Threads |-> NULL]
    /\ phase = "run"
    /\ active = T
    /\ popped = <<>>
    /\ yielded = <<>>
    /\ gone = [v \in Values |-> 0]
    /\ destroyed = [v \in Values |-> 0]
    /\ dfree = FALSE
    /\ pushed = {}
    /\ shape = IF Cardinality(T) = 1 THEN "pushes" ELSE "other"
    /\ obs = NoObs
    /\ changed = [t \in Threads |-> FALSE]

Init == InitWith(Threads)

InitSeq == InitWith({1})

\* One thread alone with the stack, or all of them.
InitAny == \E T \in {{1}, Threads} : InitWith(T)

\* --------------------------------------------------------------- push

\* push on the thread's private stack: no other thread reads or writes that
\* stack, so the whole call is one step (its CAS cannot fail).
PushOther(t) ==
    /\ pc[t] = "idle" /\ phase = "run"
    /\ budget[t] > 0 /\ budget' = Spend(t)
    /\ nextVal < MaxPush
    /\ \E a \in AllocChoices :
        /\ mem' = [mem EXCEPT ![a] =
                      [alloc |-> TRUE, val |-> nextVal + 1, next |-> head[t]]]
        /\ fresh' = IF a > fresh THEN a ELSE fresh
        /\ head' = [head EXCEPT ![t] = a]
    /\ nextVal' = nextVal + 1
    /\ len' = [len EXCEPT ![t] = @ + 1]
    /\ obs' = NoObs
    /\ shape' = "other"
    /\ UNCHANGED <<retired, locals, entries, phase, active, popped, yielded, pushed, gone,
                   destroyed, dfree>>

\* The bytes of the next-link as Node::new returns them: write_bytes is
\* called with count 0 and writes nothing, so they are what alloc returned,
\* zero or not.
NewNext == {NULL, UNINIT}

\* Node::new and NodeRef::from_ptr.
PushNew(t) ==
    /\ pc[t] = "idle" /\ phase = "run"
    /\ budget[t] > 0 /\ budget' = Spend(t)
    /\ UNCHANGED changed
    /\ nextVal < MaxPush
    /\ \E a \in AllocChoices, n \in NewNext :
        /\ mem' = [mem EXCEPT ![a] =
                      [alloc |-> TRUE, val |-> nextVal + 1, next |-> n]]
        /\ fresh' = IF a > fresh THEN a ELSE fresh
        /\ guard' = [guard EXCEPT ![t] = a]
    /\ nextVal' = nextVal + 1
    /\ op' = [op EXCEPT ![t] = "push"]
    /\ pc' = [pc EXCEPT ![t] = "push_load"]
    /\ obs' = NoObs
    /\ shape' = IF shape = "pushes" THEN "pushes" ELSE "other"
    /\ UNCHANGED <<head, len, retired, haz, entries, ptr, nxt, phase, active,
                   popped, yielded, pushed, gone, destroyed, dfree>>

\* head.load, node.next.store(head_ptr)
PushLoad(t) ==
    /\ pc[t] = "push_load"
    /\ changed' = Read(t)
    /\ nxt' = [nxt EXCEPT ![t] = head[SHARED]]
    /\ mem' = [mem EXCEPT ![guard[t]].next = head[SHARED]]
    /\ pc' = [pc EXCEPT ![t] = "push_cas"]
    /\ UNCHANGED <<head, len, fresh, nextVal, retired, haz, guard, entries, op,
                   ptr, phase, active, budget, hist, gone, destroyed, dfree, obs>>

\* Mutant of PushCas: on Err(now) head_ptr becomes now, the node's next-link
\* is not re-pointed.
PushCasNoRelink(t) ==
    /\ pc[t] = "push_cas"
    /\ changed' = IF head[SHARED] = nxt[t] THEN Raced(t) ELSE Read(t)
    /\ IF head[SHARED] = nxt[t]
       THEN /\ head' = [head EXCEPT ![SHARED] = guard[t]]
            /\ pc' = [pc EXCEPT ![t] = "push_len"]
            /\ nxt' = [nxt EXCEPT ![t] = NULL]
            /\ pushed' = pushed \cup {mem[guard[t]].val}
            /\ UNCHANGED mem
       ELSE /\ UNCHANGED mem
            /\ nxt' = [nxt EXCEPT ![t] = head[SHARED]]
            /\ UNCHANGED <<head, pc, pushed>>
    /\ UNCHANGED <<len, fresh, nextVal, retired, haz, guard, entries, op, ptr,
                   phase, active, budget, popped, yielded, shape, gone, destroyed, dfree, obs>>

\* compare_exchange(head_ptr, node_ptr); on Err(now) re-point next and retry.
PushCas(t) ==
    /\ pc[t] = "push_cas"
    /\ changed' = IF head[SHARED] = nxt[t] THEN Raced(t) ELSE Read(t)
    /\ IF head[SHARED] = nxt[t]
       THEN /\ head' = [head EXCEPT ![SHARED] = guard[t]]
            /\ pc' = [pc EXCEPT ![t] = "push_len"]
            /\ nxt' = [nxt EXCEPT ![t] = NULL]
            /\ pushed' = pushed \cup {mem[guard[t]].val}
            /\ UNCHANGED mem
       ELSE /\ mem' = [mem EXCEPT ![guard[t]].next = head[SHARED]]
            /\ nxt' = [nxt EXCEPT ![t] = head[SHARED]]
            /\ UNCHANGED <<head, pc, pushed>>
    /\ UNCHANGED <<len, fresh, nextVal, retired, haz, guard, entries, op, ptr,
                   phase, active, budget, popped, yielded, shape, gone, destroyed, dfree, obs>>

\* Mutant of PushLen: the NodeRef of the pushed node outlives the call.
PushLenKeepsGuard(t) ==
    /\ pc[t] = "push_len"
    /\ UNCHANGED changed
    /\ len' = [len EXCEPT ![SHARED] = @ + 1]
    /\ UNCHANGED guard
    /\ pc' = [pc EXCEPT ![t] = "idle"]
    /\ op' = [op EXCEPT ![t] = "none"]
    /\ obs' = Record([NoObs EXCEPT !.op = "push", !.res = mem[guard[t]].val])
    /\ UNCHANGED <<head, mem, fresh, nextVal, retired, haz, entries, ptr,
                   nxt, phase, active, budget, hist, gone, destroyed, dfree>>

\* len.fetch_add(1); the NodeRef is dropped on return.
PushLen(t) ==
    /\ pc[t] = "push_len"
    /\ UNCHANGED changed
    /\ len' = [len EXCEPT ![SHARED] = @ + 1]
    /\ guard' = [guard EXCEPT ![t] = NULL]
    /\ pc' = [pc EXCEPT ![t] = "idle"]
    /\ op' = [op EXCEPT ![t] = "none"]
    /\ obs' = Record([NoObs EXCEPT !.op = "push", !.res = mem[guard[t]].val])
    /\ UNCHANGED <<head, mem, fresh, nextVal, retired, haz, entries, ptr,
                   nxt, phase, active, budget, hist, gone, destroyed, dfree>>

\* ----------------------------------------------- the protection protocol

\* pop or peek is called.
Call(t, o) ==
    /\ pc[t] = "idle" /\ phase = "run"
    /\ budget[t] > 0 /\ budget' = Spend(t)
    /\ UNCHANGED changed
    /\ Held(t) < MaxHeld
    /\ op' = [op EXCEPT ![t] = o]
    /\ pc' = [pc EXCEPT ![t] = "load"]
    /\ obs' = IF o = "pop" /\ obs.op = "peek"
              THEN [obs EXCEPT !.op = "peeked"] ELSE NoObs
    /\ shape' = IF o = "pop" /\ shape # "other" THEN "pops" ELSE "other"
    /\ UNCHANGED <<head, len, heap, fresh, nextVal, retired, haz, guard,
                   entries, ptr, nxt, phase, active, popped, yielded, pushed>>

\* from_atomic_ptr(&self.head): protect_ptr starts with a load of the slot.
\* In pop's retry old_head still holds its guard meanwhile.
ProtLoad(t) ==
    /\ pc[t] = "load"
    /\ changed' = Read(t)
    /\ ptr' = [ptr EXCEPT ![t] = head[SHARED]]
    /\ pc' = [pc EXCEPT ![t] = "protect"]
    /\ UNCHANGED <<head, len, heap, fresh, nextVal, retired, haz, guard,
                   entries, op, nxt, phase, active, budget, hist, obs>>

\* hazard.protect(ptr)
ProtPublish(t) ==
    /\ pc[t] = "protect"
    /\ UNCHANGED changed
    /\ haz' = [haz EXCEPT ![t] = ptr[t]]
    /\ pc' = [pc EXCEPT ![t] = "validate"]
    /\ UNCHANGED <<head, len, heap, fresh, nextVal, retired, guard, entries,
                   op, ptr, nxt, phase, active, budget, hist, obs>>

\* Mutant of ProtValidate: a slot that changed is taken for an empty stack,
\* the call returns None instead of protecting the new value.
ProtValidateGiveUp(t) ==
    /\ pc[t] = "validate"
    /\ changed' = Read(t)
    /\ IF head[SHARED] # ptr[t] \/ ptr[t] = NULL
       THEN /\ haz' = [haz EXCEPT ![t] = NULL]
            /\ guard' = [guard EXCEPT ![t] = NULL]
            /\ ptr' = [ptr EXCEPT ![t] = NULL]
            /\ nxt' = [nxt EXCEPT ![t] = NULL]
            /\ pc' = [pc EXCEPT ![t] = "idle"]
            /\ op' = [op EXCEPT ![t] = "none"]
            /\ obs' = Record([NoObs EXCEPT !.op = op[t]])
            /\ UNCHANGED entries
       ELSE IF op[t] = "pop"
       THEN /\ haz' = [haz EXCEPT ![t] = NULL]
            /\ guard' = [guard EXCEPT ![t] = ptr[t]]
            /\ nxt' = [nxt EXCEPT ![t] = mem[ptr[t]].next]
            /\ ptr' = [ptr EXCEPT ![t] = NULL]
            /\ pc' = [pc EXCEPT ![t] = "pop_cas"]
            /\ UNCHANGED <<entries, op, obs>>
       ELSE /\ haz' = [haz EXCEPT ![t] = NULL]
            /\ entries' = [entries EXCEPT ![t][ptr[t]] = @ + 1]
            /\ ptr' = [ptr EXCEPT ![t] = NULL]
            /\ pc' = [pc EXCEPT ![t] = "idle"]
            /\ op' = [op EXCEPT ![t] = "none"]
            /\ obs' = Record([NoObs EXCEPT !.op = "peek",
                                           !.res = mem[ptr[t]].val])
            /\ UNCHANGED <<guard, nxt>>
    /\ UNCHANGED <<head, len, heap, fresh, nextVal, retired, phase, active, budget,
                   hist>>

\* Mutant of ProtValidate: the candidate is taken as protected without the
\* re-read of the slot.
ProtValidateUnchecked(t) ==
    /\ pc[t] = "validate"
    /\ changed' = Read(t)
    /\ IF ptr[t] = NULL
       THEN /\ haz' = [haz EXCEPT ![t] = NULL]
            /\ guard' = [guard EXCEPT ![t] = NULL]
            /\ ptr' = [ptr EXCEPT ![t] = NULL]
            /\ nxt' = [nxt EXCEPT ![t] = NULL]
            /\ pc' = [pc EXCEPT ![t] = "idle"]
            /\ op' = [op EXCEPT ![t] = "none"]
            /\ obs' = Record([NoObs EXCEPT !.op = op[t]])
            /\ UNCHANGED entries
       ELSE IF op[t] = "pop"
       THEN /\ haz' = [haz EXCEPT ![t] = NULL]
            /\ guard' = [guard EXCEPT ![t] = ptr[t]]
            /\ nxt' = [nxt EXCEPT ![t] = mem[ptr[t]].next]
            /\ ptr' = [ptr EXCEPT ![t] = NULL]
            /\ pc' = [pc EXCEPT ![t] = "pop_cas"]
            /\ UNCHANGED <<entries, op, obs>>
       ELSE /\ haz' = [haz EXCEPT ![t] = NULL]
            /\ entries' = [entries EXCEPT ![t][ptr[t]] = @ + 1]
            /\ ptr' = [ptr EXCEPT ![t] = NULL]
            /\ pc' = [pc EXCEPT ![t] = "idle"]
            /\ op' = [op EXCEPT ![t] = "none"]
            /\ obs' = Record([NoObs EXCEPT !.op = "peek",
                                           !.res = mem[ptr[t]].val])
            /\ UNCHANGED <<guard, nxt>>
    /\ UNCHANGED <<head, len, heap, fresh, nextVal, retired, phase, active, budget,
                   hist>>

\* The re-read of the slot, and what pop or peek does with the outcome.
ProtValidate(t) ==
    /\ pc[t] = "validate"
    /\ changed' = Read(t)
    /\ IF head[SHARED] # ptr[t]
       THEN \* the slot changed: reset the hazard and protect the new value
            /\ haz' = [haz EXCEPT ![t] = NULL]
            /\ ptr' = [ptr EXCEPT ![t] = head[SHARED]]
            /\ pc' = [pc EXCEPT ![t] = "protect"]
            /\ UNCHANGED <<guard, entries, op, nxt, obs>>
       ELSE IF ptr[t] = NULL
       THEN \* None: the call returns, dropping the guard a retry still held
            /\ haz' = [haz EXCEPT ![t] = NULL]
            /\ guard' = [guard EXCEPT ![t] = NULL]
            /\ ptr' = [ptr EXCEPT ![t] = NULL]
            /\ nxt' = [nxt EXCEPT ![t] = NULL]
            /\ pc' = [pc EXCEPT ![t] = "idle"]
            /\ op' = [op EXCEPT ![t] = "none"]
            /\ obs' = Record([NoObs EXCEPT !.op = op[t]])
            /\ UNCHANGED entries
       ELSE IF op[t] = "pop"
       THEN \* Some(NodeRef), which replaces old_head; old_head.next.load
            /\ haz' = [haz EXCEPT ![t] = NULL]
            /\ guard' = [guard EXCEPT ![t] = ptr[t]]
            /\ nxt' = [nxt EXCEPT ![t] = mem[ptr[t]].next]
            /\ ptr' = [ptr EXCEPT ![t] = NULL]
            /\ pc' = [pc EXCEPT ![t] = "pop_cas"]
            /\ UNCHANGED <<entries, op, obs>>
       ELSE \* peek: Some(NodeRef) becomes the Entry returned
            /\ haz' = [haz EXCEPT ![t] = NULL]
            /\ entries' = [entries EXCEPT ![t][ptr[t]] = @ + 1]
            /\ ptr' = [ptr EXCEPT ![t] = NULL]
            /\ pc' = [pc EXCEPT ![t] = "idle"]
            /\ op' = [op EXCEPT ![t] = "none"]
            /\ obs' = Record([NoObs EXCEPT !.op = "peek",
                                           !.res = mem[ptr[t]].val])
            /\ UNCHANGED <<guard, nxt>>
    /\ UNCHANGED <<head, len, heap, fresh, nextVal, retired, phase, active, budget,
                   hist>>

\* ---------------------------------------------------------------- pop

\* Mutant of PopCas: the CAS installs null, not next_ptr.
PopCasClear(t) ==
    /\ pc[t] = "pop_cas"
    /\ changed' = IF head[SHARED] = guard[t] THEN Raced(t) ELSE Read(t)
    /\ IF head[SHARED] = guard[t]
       THEN /\ head' = [head EXCEPT ![SHARED] = NULL]
            /\ pc' = [pc EXCEPT ![t] = "pop_retire"]
       ELSE /\ pc' = [pc EXCEPT ![t] = "load"]
            /\ UNCHANGED head
    /\ nxt' = [nxt EXCEPT ![t] = NULL]
    /\ UNCHANGED <<len, heap, fresh, nextVal, retired, haz, guard, entries,
                   op, ptr, phase, active, budget, hist, obs>>

\* Mutant of PopCas: a plain store of next_ptr in place of the CAS.
PopCasStore(t) ==
    /\ pc[t] = "pop_cas"
    /\ changed' = Raced(t)
    /\ head' = [head EXCEPT ![SHARED] = nxt[t]]
    /\ pc' = [pc EXCEPT ![t] = "pop_retire"]
    /\ nxt' = [nxt EXCEPT ![t] = NULL]
    /\ UNCHANGED <<len, heap, fresh, nextVal, retired, haz, guard, entries,
                   op, ptr, phase, active, budget, hist, obs>>

\* Mutant of PopCas: the outcome of the CAS is ignored, the pop goes on to
\* retire old_head.
PopCasBlind(t) ==
    /\ pc[t] = "pop_cas"
    /\ changed' = IF head[SHARED] = guard[t] THEN Raced(t) ELSE Read(t)
    /\ IF head[SHARED] = guard[t]
       THEN head' = [head EXCEPT ![SHARED] = nxt[t]]
       ELSE UNCHANGED head
    /\ pc' = [pc EXCEPT ![t] = "pop_retire"]
    /\ nxt' = [nxt EXCEPT ![t] = NULL]
    /\ UNCHANGED <<len, heap, fresh, nextVal, retired, haz, guard, entries,
                   op, ptr, phase, active, budget, hist, obs>>

\* Mutant of PopCas: compare_exchange_weak, which may fail though head is
\* old_head.
PopCasWeak(t) ==
    /\ pc[t] = "pop_cas"
    /\ \/ /\ head[SHARED] = guard[t]
          /\ head' = [head EXCEPT ![SHARED] = nxt[t]]
          /\ pc' = [pc EXCEPT ![t] = "pop_retire"]
          /\ changed' = Raced(t)
       \/ /\ pc' = [pc EXCEPT ![t] = "load"]
          /\ changed' = Read(t)
          /\ UNCHANGED head
    /\ nxt' = [nxt EXCEPT ![t] = NULL]
    /\ UNCHANGED <<len, heap, fresh, nextVal, retired, haz, guard, entries,
                   op, ptr, phase, active, budget, hist, obs>>

\* compare_exchange(old_head, next_ptr)
PopCas(t) ==
    /\ pc[t] = "pop_cas"
    /\ changed' = IF head[SHARED] = guard[t] THEN Raced(t) ELSE Read(t)
    /\ IF head[SHARED] = guard[t]
       THEN /\ head' = [head EXCEPT ![SHARED] = nxt[t]]
            /\ pc' = [pc EXCEPT ![t] = "pop_retire"]
       ELSE /\ pc' = [pc EXCEPT ![t] = "load"]
            /\ UNCHANGED head
    /\ nxt' = [nxt EXCEPT ![t] = NULL]
    /\ UNCHANGED <<len, heap, fresh, nextVal, retired, haz, guard, entries,
                   op, ptr, phase, active, budget, hist, obs>>

\* Mutant of PopRetire: the pass runs as if old_head's guard were released.
PopRetireUnguarded(t) ==
    /\ pc[t] = "pop_retire"
    /\ UNCHANGED changed
    /\ LET rr == RetireReclaim(guard[t], ProtectedBut({t}))
       IN /\ retired' = rr.ret
          /\ mem' = rr.heap[1]
          /\ gone' = rr.heap[2]
          /\ destroyed' = rr.heap[3]
          /\ dfree' = rr.heap[4]
    /\ entries' = [entries EXCEPT ![t][guard[t]] = @ + 1]
    /\ popped' = Append(popped, mem[guard[t]].val)
    /\ guard' = [guard EXCEPT ![t] = NULL]
    /\ pc' = [pc EXCEPT ![t] = "idle"]
    /\ op' = [op EXCEPT ![t] = "none"]
    /\ obs' = Record([NoObs EXCEPT !.op = "pop", !.res = mem[guard[t]].val])
    /\ UNCHANGED <<head, len, fresh, nextVal, haz, ptr, nxt, phase, active, budget,
                   yielded, pushed, shape>>

\* Mutant of PopRetire: the pop also takes one off the length counter.
PopRetireLen(t) ==
    /\ pc[t] = "pop_retire"
    /\ UNCHANGED changed
    /\ LET rr == RetireReclaim(guard[t], Protected)
       IN /\ retired' = rr.ret
          /\ mem' = rr.heap[1]
          /\ gone' = rr.heap[2]
          /\ destroyed' = rr.heap[3]
          /\ dfree' = rr.heap[4]
    /\ entries' = [entries EXCEPT ![t][guard[t]] = @ + 1]
    /\ popped' = Append(popped, mem[guard[t]].val)
    /\ guard' = [guard EXCEPT ![t] = NULL]
    /\ pc' = [pc EXCEPT ![t] = "idle"]
    /\ op' = [op EXCEPT ![t] = "none"]
    /\ obs' = Record([NoObs EXCEPT !.op = "pop", !.res = mem[guard[t]].val])
    /\ len' = [len EXCEPT ![SHARED] = @ - 1]
    /\ UNCHANGED <<head, fresh, nextVal, haz, ptr, nxt, phase, active, budget,
                   yielded, pushed, shape>>

\* retire_ptr, eager_reclaim, Some(old_head.into())
PopRetire(t) ==
    /\ pc[t] = "pop_retire"
    /\ UNCHANGED changed
    /\ LET rr == RetireReclaim(guard[t], Protected)
       IN /\ retired' = rr.ret
          /\ mem' = rr.heap[1]
          /\ gone' = rr.heap[2]
          /\ destroyed' = rr.heap[3]
          /\ dfree' = rr.heap[4]
    /\ entries' = [entries EXCEPT ![t][guard[t]] = @ + 1]
    /\ popped' = Append(popped, mem[guard[t]].val)
    /\ guard' = [guard EXCEPT ![t] = NULL]
    /\ pc' = [pc EXCEPT ![t] = "idle"]
    /\ op' = [op EXCEPT ![t] = "none"]
    /\ obs' = Record([NoObs EXCEPT !.op = "pop", !.res = mem[guard[t]].val])
    /\ UNCHANGED <<head, len, fresh, nextVal, haz, ptr, nxt, phase, active, budget,
                   yielded, pushed, shape>>

\* Mutant of DropEntry: the drop also runs a reclamation pass.
DropEntryReclaim(t, a) ==
    /\ pc[t] = "idle"
    /\ entries[t][a] > 0
    /\ entries' = [entries EXCEPT ![t][a] = @ - 1]
    /\ LET prot == {haz[u] : u \in Threads} \cup {guard[u] : u \in Threads}
                   \cup {b \in Addrs : \E u \in Threads : entries'[u][b] > 0}
           rr == RetireReclaim(NULL, prot)
       IN /\ retired' = rr.ret
          /\ mem' = rr.heap[1]
          /\ gone' = rr.heap[2]
          /\ destroyed' = rr.heap[3]
          /\ dfree' = rr.heap[4]
    /\ obs' = IF obs.op = "peek" THEN obs ELSE NoObs
    /\ UNCHANGED <<head, len, fresh, nextVal, locals, phase, active, budget, hist>>

\* The caller drops an Entry: its HazardPointer is released.
DropEntry(t, a) ==
    /\ pc[t] = "idle"
    /\ entries[t][a] > 0
    /\ entries' = [entries EXCEPT ![t][a] = @ - 1]
    /\ obs' = IF obs.op = "peek" THEN obs ELSE NoObs
    /\ UNCHANGED <<head, len, heap, fresh, nextVal, retired, locals, phase,
                   active, budget, hist>>

\* ------------------------------------------------------------- extend

\* The last node of the chain that starts at a.
TailOf(a) == LET w == Walk(mem, a, MaxPush + 1) IN w[Len(w)]

\* Mutant of ExtCall: other.head is not reset to null.
ExtCallKeepHead(t) ==
    /\ pc[t] = "idle" /\ phase = "run"
    /\ budget[t] > 0 /\ budget' = Spend(t)
    /\ UNCHANGED changed
    /\ IF head[t] = NULL
       THEN /\ LET sd == StackDrop(t, Protected)
               IN /\ retired' = sd.ret
                  /\ mem' = sd.heap[1]
                  /\ gone' = sd.heap[2]
                  /\ destroyed' = sd.heap[3]
                  /\ dfree' = sd.heap[4]
            /\ len' = [len EXCEPT ![t] = 0]
            /\ obs' = Record([NoObs EXCEPT !.op = "extend",
                                           !.dst = ChainVals(SHARED)])
            /\ UNCHANGED <<head, guard, ptr, pc, op>>
       ELSE /\ guard' = [guard EXCEPT ![t] = head[t]]
            /\ UNCHANGED head
            /\ ptr' = [ptr EXCEPT ![t] = TailOf(head[t])]
            /\ pc' = [pc EXCEPT ![t] = "ext_load"]
            /\ op' = [op EXCEPT ![t] = "extend"]
            /\ obs' = Record([NoObs EXCEPT !.op = "extending",
                                           !.dst = ChainVals(SHARED),
                                           !.src = ChainVals(t)])
            /\ UNCHANGED <<len, heap, retired>>
    /\ shape' = "other"
    /\ UNCHANGED <<fresh, nextVal, haz, entries, nxt, phase, active, popped, yielded, pushed>>

\* extend(other) is called with the thread's private stack. Only this thread
\* reads or writes other, so from_atomic_ptr(&other.head) cannot retry and
\* the steps on other are one step: an empty other returns at once (and is
\* dropped: impl Drop for Stack); else other.head.store(null) and the walk
\* to the tail. The thread's next private stack is a fresh Stack::new().
ExtCall(t) ==
    /\ pc[t] = "idle" /\ phase = "run"
    /\ budget[t] > 0 /\ budget' = Spend(t)
    /\ UNCHANGED changed
    /\ IF head[t] = NULL
       THEN /\ LET sd == StackDrop(t, Protected)
               IN /\ retired' = sd.ret
                  /\ mem' = sd.heap[1]
                  /\ gone' = sd.heap[2]
                  /\ destroyed' = sd.heap[3]
                  /\ dfree' = sd.heap[4]
            /\ len' = [len EXCEPT ![t] = 0]
            /\ obs' = Record([NoObs EXCEPT !.op = "extend",
                                           !.dst = ChainVals(SHARED)])
            /\ UNCHANGED <<head, guard, ptr, pc, op>>
       ELSE /\ guard' = [guard EXCEPT ![t] = head[t]]
            /\ head' = [head EXCEPT ![t] = NULL]
            /\ ptr' = [ptr EXCEPT ![t] = TailOf(head[t])]
            /\ pc' = [pc EXCEPT ![t] = "ext_load"]
            /\ op' = [op EXCEPT ![t] = "extend"]
            /\ obs' = Record([NoObs EXCEPT !.op = "extending",
                                           !.dst = ChainVals(SHARED),
                                           !.src = ChainVals(t)])
            /\ UNCHANGED <<len, heap, retired>>
    /\ shape' = "other"
    /\ UNCHANGED <<fresh, nextVal, haz, entries, nxt, phase, active, popped, yielded, pushed>>

\* The chain extend detached from other: from new_head to the tail.
Detached(t) ==
    LET w == Walk(mem, guard[t], MaxPush + 1)
        k == CHOOSE i \in 1..Len(w) : w[i] = ptr[t]
    IN SubSeq(w, 1, k)

\* Mutant of ExtLoad: the tail's next-link is not written.
ExtLoadNoLink(t) ==
    /\ pc[t] = "ext_load"
    /\ changed' = Read(t)
    /\ nxt' = [nxt EXCEPT ![t] = head[SHARED]]
    /\ pc' = [pc EXCEPT ![t] = "ext_cas"]
    /\ UNCHANGED <<head, len, mem, fresh, nextVal, retired, haz, guard,
                   entries, op, ptr, phase, active, budget, hist, gone, destroyed,
                   dfree, obs>>

\* self.head.load, (*tail).next.store(old_head)
ExtLoad(t) ==
    /\ pc[t] = "ext_load"
    /\ changed' = Read(t)
    /\ nxt' = [nxt EXCEPT ![t] = head[SHARED]]
    /\ mem' = [mem EXCEPT ![ptr[t]].next = head[SHARED]]
    /\ pc' = [pc EXCEPT ![t] = "ext_cas"]
    /\ UNCHANGED <<head, len, fresh, nextVal, retired, haz, guard, entries, op,
                   ptr, phase, active, budget, hist, gone, destroyed, dfree, obs>>

\* Mutant of ExtCas: a failed CAS takes the new head as old_head but leaves
\* the tail's next-link as it was.
ExtCasNoRelink(t) ==
    /\ pc[t] = "ext_cas"
    /\ changed' = IF head[SHARED] = nxt[t] THEN Raced(t) ELSE Read(t)
    /\ IF head[SHARED] = nxt[t]
       THEN /\ head' = [head EXCEPT ![SHARED] = guard[t]]
            /\ pc' = [pc EXCEPT ![t] = "ext_drop"]
            /\ nxt' = [nxt EXCEPT ![t] = NULL]
            /\ ptr' = [ptr EXCEPT ![t] = NULL]
            /\ pushed' = pushed \cup {mem[a].val : a \in Range(Detached(t))}
       ELSE /\ nxt' = [nxt EXCEPT ![t] = head[SHARED]]
            /\ UNCHANGED <<head, pc, ptr, pushed>>
    /\ UNCHANGED <<len, mem, fresh, nextVal, retired, haz, guard, entries, op,
                   phase, active, budget, popped, yielded, shape, gone, destroyed,
                   dfree, obs>>

\* compare_exchange(old_head, new_head); on Err(head_now) re-point the tail.
ExtCas(t) ==
    /\ pc[t] = "ext_cas"
    /\ changed' = IF head[SHARED] = nxt[t] THEN Raced(t) ELSE Read(t)
    /\ IF head[SHARED] = nxt[t]
       THEN /\ head' = [head EXCEPT ![SHARED] = guard[t]]
            /\ pc' = [pc EXCEPT ![t] = "ext_drop"]
            /\ nxt' = [nxt EXCEPT ![t] = NULL]
            /\ ptr' = [ptr EXCEPT ![t] = NULL]
            /\ pushed' = pushed \cup {mem[a].val : a \in Range(Detached(t))}
            /\ UNCHANGED mem
       ELSE /\ mem' = [mem EXCEPT ![ptr[t]].next = head[SHARED]]
            /\ nxt' = [nxt EXCEPT ![t] = head[SHARED]]
            /\ UNCHANGED <<head, pc, ptr, pushed>>
    /\ UNCHANGED <<len, fresh, nextVal, retired, haz, guard, entries, op,
                   phase, active, budget, popped, yielded, shape, gone, destroyed, dfree, obs>>

\* extend returns: new_head is dropped, then other (impl Drop for Stack).
ExtDrop(t) ==
    /\ pc[t] = "ext_drop"
    /\ UNCHANGED changed
    /\ LET sd == StackDrop(t, ProtectedBut({t}))
       IN /\ retired' = sd.ret
          /\ mem' = sd.heap[1]
          /\ gone' = sd.heap[2]
          /\ destroyed' = sd.heap[3]
          /\ dfree' = sd.heap[4]
    /\ head' = [head EXCEPT ![t] = NULL]
    /\ len' = [len EXCEPT ![t] = 0]
    /\ guard' = [guard EXCEPT ![t] = NULL]
    /\ pc' = [pc EXCEPT ![t] = "idle"]
    /\ op' = [op EXCEPT ![t] = "none"]
    /\ obs' = IF obs.op = "extending" THEN [obs EXCEPT !.op = "extend"]
              ELSE obs
    /\ UNCHANGED <<fresh, nextVal, haz, ptr, nxt, entries, phase, active, budget,
                   hist>>

\* ------------------------------------------- dropping and consuming stacks

\* A thread drops its private stack and starts a new one.
DropOther(t) ==
    /\ pc[t] = "idle"
    /\ LET sd == StackDrop(t, Protected)
       IN /\ retired' = sd.ret
          /\ mem' = sd.heap[1]
          /\ gone' = sd.heap[2]
          /\ destroyed' = sd.heap[3]
          /\ dfree' = sd.heap[4]
    /\ head' = [head EXCEPT ![t] = NULL]
    /\ len' = [len EXCEPT ![t] = 0]
    /\ obs' = NoObs
    /\ shape' = "other"
    /\ UNCHANGED <<fresh, nextVal, locals, entries, phase, active, budget, popped, yielded, pushed>>

\* Stack::into_iter: the stack's owner is alone with it, no Entry borrows it.
IntoIter ==
    /\ phase = "run"
    /\ \A t \in Threads : pc[t] = "idle" /\ Held(t) = 0
    /\ phase' = "iter"
    /\ UNCHANGED <<head, len, heap, fresh, nextVal, retired, locals, entries,
                   active, budget, hist, obs>>

\* Mutant of IterNext: the value is moved out, the node is not deallocated.
IterNextNoDealloc ==
    /\ phase = "iter"
    /\ head[SHARED] # NULL
    /\ LET a == head[SHARED]
       IN /\ head' = [head EXCEPT ![SHARED] = mem[a].next]
          /\ yielded' = Append(yielded, mem[a].val)
          /\ destroyed' = [destroyed EXCEPT ![mem[a].val] = @ + 1]
    /\ UNCHANGED <<len, mem, gone, dfree, fresh, nextVal, retired, locals,
                   entries, phase, active, budget, popped, pushed, shape, obs>>

\* IntoIter::next on a non-empty chain: unlink, ptr::read the value, dealloc.
IterNext ==
    /\ phase = "iter"
    /\ head[SHARED] # NULL
    /\ LET a == head[SHARED]
           h == FreeSeq(<<mem, gone, destroyed, dfree>>, <<a>>)
       IN /\ head' = [head EXCEPT ![SHARED] = mem[a].next]
          /\ yielded' = Append(yielded, mem[a].val)
          /\ mem' = h[1]
          /\ gone' = h[2]
          /\ destroyed' = h[3]
          /\ dfree' = h[4]
    /\ UNCHANGED <<len, fresh, nextVal, retired, locals, entries, phase,
                   active, budget, popped, pushed, shape, obs>>

\* The IntoIter is dropped, and with it the stack.
IterDrop ==
    /\ phase = "iter"
    /\ LET sd == StackDrop(SHARED, Protected)
       IN /\ retired' = sd.ret
          /\ mem' = sd.heap[1]
          /\ gone' = sd.heap[2]
          /\ destroyed' = sd.heap[3]
          /\ dfree' = sd.heap[4]
    /\ head' = [head EXCEPT ![SHARED] = NULL]
    /\ phase' = "dropped"
    /\ UNCHANGED <<len, fresh, nextVal, locals, entries, active, budget, hist, obs>>

\* --------------------------------------------------------------- Next

Next ==
    \/ \E t \in active : PushOther(t)
    \/ \E t \in active : PushNew(t)
    \/ \E t \in active : PushLoad(t)
    \/ \E t \in active : PushCas(t)
    \/ \E t \in active : PushLen(t)
    \/ \E t \in active : \E o \in {"pop", "peek"} : Call(t, o)
    \/ \E t \in active : ProtLoad(t)
    \/ \E t \in active : ProtPublish(t)
    \/ \E t \in active : ProtValidate(t)
    \/ \E t \in active : PopCas(t)
    \/ \E t \in active : PopRetire(t)
    \/ \E t \in active : \E a \in Addrs : DropEntry(t, a)
    \/ \E t \in active : ExtCall(t)
    \/ \E t \in active : ExtLoad(t)
    \/ \E t \in active : ExtCas(t)
    \/ \E t \in active : ExtDrop(t)
    \/ \E t \in active : DropOther(t)
    \/ IntoIter
    \/ IterNext
    \/ IterDrop

Spec == Init /\ [][Next]_vars

SpecSeq == InitSeq /\ [][Next]_vars

SpecAny == InitAny /\ [][Next]_vars

\* The steps of a call in flight: what thread t does when it is scheduled.
Step(t) ==
    \/ PushLoad(t) \/ PushCas(t) \/ PushLen(t)
    \/ ProtLoad(t) \/ ProtPublish(t) \/ ProtValidate(t)
    \/ PopCas(t) \/ PopRetire(t)
    \/ ExtLoad(t) \/ ExtCas(t) \/ ExtDrop(t)

\* Every thread issues at most MaxCalls calls.
InitFair ==
    /\ budget = [t \in Threads |-> MaxCalls]
    /\ head = [s \in StackIds |-> NULL]
    /\ len = [s \in StackIds |-> 0]
    /\ mem = [a \in Addrs |-> FreeCell]
    /\ fresh = 0
    /\ nextVal = 0
    /\ retired = [a \in Addrs |-> 0]
    /\ haz = [t \in Threads |-> NULL]
    /\ guard = [t \in Threads |-> NULL]
    /\ entries = [t \in Threads |-> [a \in Addrs |-> 0]]
    /\ pc = [t \in Threads |-> "idle"]
    /\ op = [t \in Threads |-> "none"]
    /\ ptr = [t \in Threads |-> NULL]
    /\ nxt = [t \in Threads |-> NULL]
    /\ phase = "run"
    /\ active = Threads
    /\ popped = <<>>
    /\ yielded = <<>>
    /\ gone = [v \in Values |-> 0]
    /\ destroyed = [v \in Values |-> 0]
    /\ dfree = FALSE
    /\ pushed = {}
    /\ shape = "other"
    /\ obs = NoObs
    /\ changed = [t \in Threads |-> FALSE]

\* Every thread issues finitely many calls, and a thread with a call in
\* flight is scheduled again and again.
SpecFair == InitFair /\ [][Next]_vars /\ \A t \in Threads : WF_vars(Step(t))

\* ------------------------------------------------------------- claims

AllIdle == \A t \in Threads : pc[t] = "idle"

NoDup(q) == \A i, j \in 1..Len(q) : i # j => q[i] # q[j]

\* C1: no step deallocates a node that a validated guard protects: the
\* Entry of a pop or peek that any thread holds, or the NodeRef a call in
\* flight holds. (extend drops its own NodeRef before it drops `other`, whose
\* Drop runs the pass, so that one guard is released when the pass runs.)
C1_NoFreeWhileGuarded ==
    [][\A a \in Addrs :
          (mem[a].alloc /\ ~mem'[a].alloc) =>
              \A t \in Threads :
                  /\ entries[t][a] = 0
                  /\ guard[t] = a => (pc[t] = "ext_drop" /\ pc'[t] = "idle")]_vars

\* C1 witness: each thread holds the Entry of a node that is retired, so of
\* two pops the later one ran its pass over a node the other thread holds.
C1_Witness ==
    \E a, b \in Addrs :
        /\ a # b
        /\ retired[a] > 0 /\ retired[b] > 0
        /\ mem[a].alloc /\ mem[b].alloc
        /\ entries[1][a] > 0 /\ entries[2][b] > 0
        /\ Len(popped) >= 2
        /\ AllIdle

\* C2: the chain of every stack is finite, acyclic and null-terminated, and
\* each of its nodes is allocated and not in the retired list.
C2_ChainValid ==
    \A s \in StackIds :
        LET c == Chain(s)
        IN /\ head[s] \in Addrs \cup {NULL}
           /\ NoDup(c)
           /\ \A i \in 1..Len(c) : mem[c[i]].alloc /\ retired[c[i]] = 0
           /\ Len(c) > 0 => mem[c[Len(c)]].next = NULL

\* C2 witness: a pop is about to CAS on a node another thread has popped
\* meanwhile; the node below it was freed and the allocator handed its
\* address to a later push, which is the head now (every push of the run
\* went to the shared stack, so the larger value is the later node).
C2_Witness ==
    \E t \in Threads :
        /\ pc[t] = "pop_cas"
        /\ retired[guard[t]] > 0
        /\ nxt[t] \in Addrs
        /\ head[SHARED] = nxt[t]
        /\ len[SHARED] = MaxPush
        /\ mem[nxt[t]].val > mem[guard[t]].val

\* C3: no value is returned twice, by two pops or by a pop and the iteration,
\* and once a consuming iteration has run to the end the pops and the
\* iteration together returned exactly the values linked into the stack.
C3_Conservation ==
    /\ NoDup(popped \o yielded)
    /\ Range(popped \o yielded) \subseteq pushed
    /\ (phase = "iter" /\ head[SHARED] = NULL) =>
          /\ Len(popped) + Len(yielded) = Cardinality(pushed)
          /\ Range(popped \o yielded) = pushed

\* C3 witness: a full iteration after pops, every push of the run in the
\* shared stack.
C3_Witness ==
    /\ phase = "iter" /\ head[SHARED] = NULL
    /\ Cardinality(pushed) = MaxPush
    /\ Len(popped) >= 1 /\ Len(yielded) >= 1

\* Every stack is gone, and every guard and Entry with it.
AllDropped ==
    /\ phase = "dropped"
    /\ AllIdle
    /\ \A t \in Threads : head[t] = NULL /\ Held(t) = 0

\* C4: no node is deallocated twice and no value destroyed twice, and once
\* the stacks and all handles are dropped every node pushed has been
\* deallocated and its value destroyed or moved out exactly once, with
\* nothing left in the retired list.
C4_FreedExactlyOnce ==
    /\ ~dfree
    /\ \A v \in Values : gone[v] <= 1 /\ destroyed[v] <= 1
    /\ AllDropped =>
          /\ \A v \in 1..nextVal : gone[v] = 1 /\ destroyed[v] = 1
          /\ \A a \in Addrs : ~mem[a].alloc /\ retired[a] = 0

\* C4 witness: everything dropped after a run whose nodes left through a pop
\* and through the iteration.
C4_Witness ==
    /\ AllDropped
    /\ nextVal = MaxPush
    /\ Len(popped) >= 1 /\ Len(yielded) >= 1

\* C5: on one thread, after N pushes on the fresh stack and then pops only,
\* the i-th pop returned the value of push N + 1 - i, and a pop returned
\* nothing only once all N values had been popped.
C5_Lifo ==
    shape # "other" =>
        /\ \A i \in 1..Len(popped) : popped[i] = nextVal + 1 - i
        /\ (obs.op = "pop" /\ obs.res = 0) => Len(popped) = nextVal

\* C5 witness: MaxPush pushes, MaxPush pops, and one more pop that returned
\* nothing.
C5_Witness ==
    /\ shape = "pops"
    /\ nextVal = MaxPush
    /\ Len(popped) = MaxPush
    /\ obs.op = "pop" /\ obs.res = 0

\* C6: on one thread, with no call in flight after pushes and then pops,
\* len() is the number of pushes minus the number of successful pops.
C6_LenIsPushesMinusPops ==
    (shape # "other" /\ AllIdle) =>
        LenOf(SHARED) = nextVal - Len(popped)

\* C7: on one thread, once destination.extend(source) has returned, the
\* destination holds, top to bottom, the source's values and then its own:
\* what a consuming iteration has yielded followed by what it has yet to
\* yield is source \o destination as they were at the call.
C7_ExtendOrder ==
    (obs.op = "extend" /\ phase # "dropped") =>
        yielded \o ChainVals(SHARED) = obs.src \o obs.dst

\* C7 witness: a full consuming iteration right after an extend of a
\* non-empty source onto a non-empty destination.
C7_Witness ==
    /\ obs.op = "extend"
    /\ Len(obs.src) >= 1 /\ Len(obs.dst) >= 1
    /\ Len(obs.src) + Len(obs.dst) = MaxPush
    /\ phase = "iter" /\ head[SHARED] = NULL
    /\ yielded = obs.src \o obs.dst

\* C8: until the CAS of extend succeeds none of the detached nodes is
\* reachable from the destination's head, and the step of the successful
\* CAS puts the whole detached chain, in its order, in front of the chain
\* the destination had at that instant.
C8_SpliceAtomic ==
    /\ [](\A t \in Threads :
            pc[t] \in {"ext_load", "ext_cas"} =>
                Range(Detached(t)) \cap Range(Chain(SHARED)) = {})
    /\ [][\A t \in Threads :
            (pc[t] = "ext_cas" /\ pc'[t] = "ext_drop") =>
                Chain(SHARED)' = Detached(t) \o Chain(SHARED)]_vars

\* C8 witness: the splice has just succeeded in front of a node pushed by
\* the other thread, which is itself in the middle of a push or a pop.
C8_Witness ==
    \E t, u \in Threads :
        /\ t # u
        /\ pc[t] = "ext_drop"
        /\ head[SHARED] = guard[t]
        /\ Len(Chain(SHARED)) = MaxPush
        /\ pc[u] \in {"push_cas", "pop_cas"}

\* C9, as claimed: the step that drops the last guard of a retired node
\* deallocates the node.
C9_DropFreesNode ==
    [][\A t \in Threads, a \in Addrs :
          (entries'[t][a] < entries[t][a] /\ retired[a] > 0
              /\ a \notin Protected') => ~mem'[a].alloc]_vars

\* C9, amended: the step that drops an Entry releases its guard and leaves
\* the retired list and the heap as they are; the pass of a later pop frees
\* every retired node that no hazard slot names.
C9_DropOnlyReleases ==
    [][/\ \A t \in Threads, a \in Addrs :
            entries'[t][a] < entries[t][a] =>
                UNCHANGED <<retired, mem, gone, destroyed>>
       /\ \A t \in Threads :
            (pc[t] = "pop_retire" /\ pc'[t] = "idle") =>
                \A a \in Addrs : retired'[a] > 0 => a \in Protected]_vars

\* C9 witness: the last guard of a retired node has been dropped and the
\* node is still allocated, in the retired list.
C9_Witness ==
    \E a \in Addrs :
        /\ retired[a] > 0 /\ mem[a].alloc
        /\ a \notin Protected
        /\ AllIdle /\ phase = "run"

\* C10: a pop or peek whose protected read of head is null returns at once
\* with nothing, and head, the nodes, the length counter, the retired list
\* and the caller's handles are as before; and a pop returns nothing only
\* from a protected read of a null head.
C10_EmptyIsNone ==
    [][\A t \in Threads :
          /\ (pc[t] = "validate" /\ pc'[t] # "validate"
                 /\ ptr[t] = NULL /\ head[SHARED] = NULL) =>
                /\ pc'[t] = "idle" /\ op'[t] = "none"
                /\ guard'[t] = NULL /\ haz'[t] = NULL
                /\ UNCHANGED <<head, mem, len, retired, popped, entries>>
          /\ (op[t] = "pop" /\ op'[t] = "none" /\ popped' = popped) =>
                /\ pc[t] = "validate"
                /\ haz[t] = NULL /\ head[SHARED] = NULL]_vars

\* C10 witness: a pop whose CAS failed protects head again and is about to
\* find it null, on a stack that pops have emptied.
C10_Witness ==
    \E t \in Threads :
        /\ pc[t] = "validate" /\ op[t] = "pop"
        /\ ptr[t] = NULL /\ haz[t] = NULL /\ head[SHARED] = NULL
        /\ guard[t] # NULL
        /\ Len(popped) >= 1

\* C11: no step of a peek changes head, a node (its next-link, its value,
\* whether it is allocated), the length counter or the retired list; a peek
\* that returns hands out one guard, on the node that is the head at its
\* validated read, and none when that read is null; and on one thread a pop
\* called right after a peek returns the value the peek returned.
C11_PeekObserves ==
    [][\A t \in Threads :
          /\ ((op[t] = "peek" \/ op'[t] = "peek") /\ pc'[t] # pc[t]) =>
                /\ UNCHANGED <<head, mem, len, retired, guard, popped>>
          /\ (op[t] = "peek" /\ op'[t] = "none") =>
                /\ pc[t] = "validate" /\ ptr[t] = head[SHARED]
                /\ IF head[SHARED] = NULL THEN entries' = entries
                   ELSE /\ entries' = [entries EXCEPT
                                          ![t][head[SHARED]] = @ + 1]
                        /\ mem[head[SHARED]].alloc
                        /\ retired[head[SHARED]] = 0
          /\ (obs.op = "peeked" /\ obs'.op = "pop") =>
                obs'.res = obs.res]_vars

\* C11 witness: on one thread a peek returned the head's value, its Entry
\* was dropped, and the pop called next is about to return that node.
C11_Witness ==
    /\ active = {1}
    /\ obs.op = "peeked" /\ obs.res # 0
    /\ pc[1] = "pop_retire"
    /\ mem[guard[1]].val = obs.res
    /\ head[SHARED] # NULL

\* A step in which thread t repeats its CAS loop or its protection loop.
Retries(t) ==
    \/ pc[t] = "push_cas" /\ pc'[t] = "push_cas" /\ nxt'[t] # nxt[t]
    \/ pc[t] = "ext_cas" /\ pc'[t] = "ext_cas" /\ nxt'[t] # nxt[t]
    \/ pc[t] = "pop_cas" /\ pc'[t] = "load"
    \/ pc[t] = "validate" /\ pc'[t] = "protect"

\* C12: a thread repeats its CAS loop or its protection loop only when,
\* since its last read of head, head was changed, and head is changed under
\* a running call only by the successful CAS of another thread; and under
\* fair scheduling, the pushes being finitely many, every call returns.
C12_LockFree ==
    /\ [][\A t \in Threads :
            /\ Retries(t) => changed[t]
            /\ (changed'[t] /\ ~changed[t]) =>
                  \E u \in Threads \ {t} :
                      /\ pc[u] \in {"push_cas", "pop_cas", "ext_cas"}
                      /\ pc'[u] # pc[u]
                      /\ head'[SHARED] # head[SHARED]
            /\ (pc[t] \in AfterRead /\ pc'[t] = pc[t]
                   /\ head'[SHARED] # head[SHARED]) => changed'[t]]_vars
    /\ \A t \in Threads : (pc[t] # "idle") ~> (pc[t] = "idle")

\* C12 witness: a pop is about to repeat its loop: the node it protected is
\* no longer the head, another thread having popped it.
C12_Witness ==
    \E t \in Threads :
        /\ pc[t] = "pop_cas" /\ changed[t]
        /\ head[SHARED] # guard[t]
        /\ retired[guard[t]] > 0

\* C13: every IntoIter::next on a non-empty chain yields the value of the
\* top node, leaves the rest of the chain as it was, and deallocates that
\* node, its value moved out once; so the iteration yields the chain top to
\* bottom, no value twice. Dropping the iterator deallocates every node still
\* in the chain and destroys its value, once, and frees no yielded node again.
C13_ConsumingIteration ==
    /\ [](phase # "run" => NoDup(yielded) /\ ~dfree)
    /\ [][/\ (phase = "iter" /\ phase' = "iter"
                /\ head'[SHARED] # head[SHARED]) =>
              LET top == head[SHARED]
                  c == ChainVals(SHARED)
              IN /\ yielded' = Append(yielded, c[1])
                 /\ ChainVals(SHARED)' = Tail(c)
                 /\ Chain(SHARED)' = Tail(Chain(SHARED))
                 /\ mem[top].alloc /\ ~mem'[top].alloc
                 /\ gone[c[1]] = 0 /\ gone'[c[1]] = 1
                 /\ destroyed[c[1]] = 0 /\ destroyed'[c[1]] = 1
                 /\ \A b \in Addrs \ {top} : mem'[b] = mem[b]
          /\ (phase = "iter" /\ phase' = "dropped") =>
              /\ \A a \in Range(Chain(SHARED)) :
                    mem[a].alloc /\ ~mem'[a].alloc
              /\ \A v \in Range(ChainVals(SHARED)) :
                    /\ gone[v] = 0 /\ gone'[v] = 1
                    /\ destroyed[v] = 0 /\ destroyed'[v] = 1
              /\ \A v \in Range(yielded) :
                    /\ gone[v] = 1 /\ gone'[v] = 1
                    /\ destroyed[v] = 1 /\ destroyed'[v] = 1]_vars

\* C13 witness: the iterator was dropped after it had yielded a prefix: a
\* value linked into the stack was neither popped nor yielded, and its node
\* is deallocated.
C13_Witness ==
    /\ phase = "dropped"
    /\ Len(yielded) >= 1
    /\ \E v \in pushed :
          /\ v \notin Range(yielded) \cup Range(popped)
          /\ gone[v] = 1 /\ destroyed[v] = 1

\* The popped values that have been destroyed.
PoppedDestroyed == {v \in Range(popped) : destroyed[v] >= 1}

\* C14: the step in which a pop retires its node and runs the pass leaves
\* that node allocated, its value not destroyed, in the retired list, the
\* popper holding its guard; and on one thread that holds no other handle,
\* right after the k-th successful pop k - 1 popped values are destroyed.
C14_OwnNodeSurvivesPass ==
    [][\A t \in Threads :
          (pc[t] = "pop_retire" /\ pc'[t] = "idle") =>
              /\ mem[guard[t]].alloc /\ mem'[guard[t]] = mem[guard[t]]
              /\ retired'[guard[t]] = 1
              /\ entries'[t][guard[t]] = entries[t][guard[t]] + 1
              /\ destroyed'[mem[guard[t]].val] = 0
              /\ gone'[mem[guard[t]].val] = 0
              /\ (active = {t} /\ Held(t) = 0) =>
                    Cardinality(PoppedDestroyed') = Len(popped') - 1]_vars

\* C14 witness: one thread has popped MaxPush nodes, dropping each handle
\* before the next pop; it holds the last one, and all but that one value
\* are destroyed.
C14_Witness ==
    /\ active = {1} /\ AllIdle /\ phase = "run"
    /\ Len(popped) = MaxPush
    /\ Held(1) = 1
    /\ obs.op = "pop" /\ obs.res # 0
    /\ destroyed[obs.res] = 0
    /\ Cardinality(PoppedDestroyed) = MaxPush - 1

\* C15: in the step of the successful CAS of push the pushed node's
\* next-link is the head the CAS replaces, and in that of extend the tail's
\* next-link is; a failed CAS leaves the link pointing to the head it has
\* just observed; and no node of a chain has an unwritten next-link.
C15_LinkIsReplacedHead ==
    /\ [](\A s \in StackIds : \A a \in Range(Chain(s)) :
            mem[a].next \in Addrs \cup {NULL})
    /\ [][\A t \in Threads :
            /\ (pc[t] = "push_cas" /\ pc'[t] = "push_len") =>
                  /\ mem[guard[t]].next = head[SHARED]
                  /\ head'[SHARED] = guard[t]
                  /\ mem' = mem
            /\ (pc[t] = "ext_cas" /\ pc'[t] = "ext_drop") =>
                  /\ mem[ptr[t]].next = head[SHARED]
                  /\ head'[SHARED] = guard[t]
                  /\ mem' = mem
            /\ (pc[t] = "push_cas" /\ pc'[t] = "push_cas"
                   /\ nxt'[t] # nxt[t]) =>
                  /\ nxt'[t] = head[SHARED]
                  /\ mem'[guard[t]].next = head[SHARED]
            /\ (pc[t] = "ext_cas" /\ pc'[t] = "ext_cas"
                   /\ nxt'[t] # nxt[t]) =>
                  /\ nxt'[t] = head[SHARED]
                  /\ mem'[ptr[t]].next = head[SHARED]]_vars

\* C15 witness: a push has just succeeded on top of a node that another
\* thread created after this push had created its own, while that other
\* thread is in the CAS loop of an extend.
C15_Witness ==
    \E t, u \in Threads :
        /\ t # u
        /\ pc[t] = "push_len"
        /\ head[SHARED] = guard[t]
        /\ mem[guard[t]].next \in Addrs
        /\ mem[mem[guard[t]].next].val > mem[guard[t]].val
        /\ pc[u] = "ext_cas" /\ changed[u]

C17_NewNextIsNull ==
    [][\A t \in Threads :
          (pc[t] = "idle" /\ pc'[t] = "push_load") =>
              /\ mem'[guard'[t]].alloc
              /\ mem'[guard'[t]].val = nextVal'
              /\ mem'[guard'[t]].next = NULL]_vars

\* The threads inside a push whose fetch_add has not run yet.
PushesInFlight ==
    {t \in Threads : pc[t] \in {"push_load", "push_cas", "push_len"}}

\* C18: the length counter of the shared stack changes only in the last
\* step of a push, by +1, so no step of pop, peek, extend or a reclamation
\* pass changes it; that of a private stack changes by +1 with a push on
\* it, and is 0 again when a fresh stack takes its place. On one thread
\* that has only pushed and popped, len() is the number of completed pushes,
\* whatever was popped; a private stack's len() is the number of its nodes.
C18_LenCountsPushes ==
    /\ [](/\ (active = {1} /\ shape # "other") =>
                LenOf(SHARED) = nextVal - Cardinality(PushesInFlight)
          /\ \A t \in Threads :
                pc[t] = "idle" => LenOf(t) = Len(Chain(t)))
    /\ [][/\ LenOf(SHARED)' # LenOf(SHARED) =>
                \E t \in Threads : pc[t] = "push_len" /\ pc'[t] = "idle"
          /\ \A t \in Threads :
                /\ (pc[t] = "push_len" /\ pc'[t] = "idle") =>
                      LenOf(SHARED)' = LenOf(SHARED) + 1
                /\ LenOf(t)' # LenOf(t) =>
                      \/ LenOf(t)' = 0
                      \/ /\ LenOf(t)' = LenOf(t) + 1
                         /\ nextVal' = nextVal + 1
                         /\ Len(Chain(t))' = Len(Chain(t)) + 1]_vars

\* C18 witness: len() of the shared stack is 1 after one push, an extend
\* that moved the other nodes into it, and a pop.
C18_Witness ==
    /\ AllIdle /\ phase = "run"
    /\ LenOf(SHARED) = 1
    /\ Len(popped) = 1
    /\ Len(Chain(SHARED)) = MaxPush - 1
    /\ Cardinality(pushed) = MaxPush

\* C19: a node is in the retired list at most once, allocated and in no
\* stack's chain; the node a pop is about to retire is not yet retired, is
\* in no chain, and is not the node of another pop at that point; the
\* retired list grows only in the last step of a pop, by that pop's node,
\* which the pop's successful CAS took off the head; a failed CAS retires
\* and returns nothing.
C19_RetiredOnce ==
    /\ [](/\ \A a \in Addrs :
                /\ retired[a] <= 1
                /\ retired[a] > 0 =>
                      /\ mem[a].alloc
                      /\ \A s \in StackIds : a \notin Range(Chain(s))
          /\ \A t \in Threads :
                pc[t] = "pop_retire" =>
                    /\ guard[t] \in Addrs
                    /\ mem[guard[t]].alloc
                    /\ retired[guard[t]] = 0
                    /\ \A s \in StackIds : guard[t] \notin Range(Chain(s))
                    /\ \A u \in Threads \ {t} :
                          pc[u] = "pop_retire" => guard[u] # guard[t]
          /\ NoDup(popped))
    /\ [][/\ \A a \in Addrs :
                retired'[a] > retired[a] =>
                    \E t \in Threads :
                        /\ pc[t] = "pop_retire" /\ pc'[t] = "idle"
                        /\ guard[t] = a
          /\ \A t \in Threads :
                /\ (pc[t] = "pop_cas" /\ pc'[t] = "pop_retire") =>
                      /\ head[SHARED] = guard[t]
                      /\ head'[SHARED] # guard[t]
                /\ (pc[t] = "pop_cas" /\ pc'[t] = "load") =>
                      /\ head[SHARED] # guard[t]
                      /\ UNCHANGED <<retired, popped, entries, head>>]_vars

\* C19 witness: two pops have each unlinked a node and are both about to
\* retire it.
C19_Witness ==
    /\ pc[1] = "pop_retire" /\ pc[2] = "pop_retire"
    /\ guard[1] # guard[2]
    /\ retired[guard[1]] = 0 /\ retired[guard[2]] = 0

\* The hazard pointers that protect something: the slot being acquired and
\* the NodeRef of every call in flight, and every Entry.
RECURSIVE Protections(_)
Protections(T) ==
    IF T = {} THEN 0
    ELSE LET t == CHOOSE x \in T : TRUE
         IN (IF haz[t] # NULL THEN 1 ELSE 0)
            + (IF guard[t] # NULL THEN 1 ELSE 0)
            + Held(t) + Protections(T \ {t})

RECURSIVE LiveEntries(_)
LiveEntries(T) ==
    IF T = {} THEN 0
    ELSE LET t == CHOOSE x \in T : TRUE
         IN Held(t) + LiveEntries(T \ {t})

\* C20: a thread with no call in flight holds no protection but its Entry
\* handles, so with no call in flight the protections are as many as the
\* live Entries; the step in which a call returns releases what the call
\* acquired, but for the one protection of the Entry a pop or peek returns;
\* dropping an Entry releases one protection; and a reclamation pass run
\* with no call in flight and no live Entry empties the retired list,
\* deallocating its nodes.
C20_ProtectionsReleased ==
    /\ [](/\ \A t \in Threads :
                pc[t] = "idle" => haz[t] = NULL /\ guard[t] = NULL
          /\ AllIdle => Protections(Threads) = LiveEntries(Threads))
    /\ [][/\ \A t \in Threads :
                /\ (pc[t] # "idle" /\ pc'[t] = "idle") =>
                      /\ haz'[t] = NULL /\ guard'[t] = NULL
                      /\ Held(t)' =
                            Held(t) + (IF \/ pc[t] = "pop_retire"
                                          \/ /\ op[t] = "peek"
                                             /\ head[SHARED] # NULL
                                       THEN 1 ELSE 0)
                /\ (pc[t] = "idle" /\ pc'[t] = "idle"
                       /\ Held(t)' # Held(t)) =>
                      /\ Held(t)' = Held(t) - 1
                      /\ Protections(Threads)' = Protections(Threads) - 1
          /\ (AllIdle /\ LiveEntries(Threads) = 0
                /\ \/ phase = "iter" /\ phase' = "dropped"
                   \/ \E t \in Threads : len[t] > 0 /\ len'[t] = 0) =>
                \A a \in Addrs :
                    /\ retired'[a] = 0
                    /\ retired[a] > 0 => mem[a].alloc /\ ~mem'[a].alloc]_vars

\* C20 witness: no call in flight, and two Entries, one from a peek and one
\* from a pop, protect the same retired node.
C20_Witness ==
    \E a \in Addrs :
        /\ AllIdle /\ phase = "run"
        /\ entries[1][a] = 1 /\ entries[2][a] = 1
        /\ retired[a] = 1 /\ mem[a].alloc
        /\ Protections(Threads) = 2

====
